---- MODULE Spec2Model ----
(***************************************************************************)
(* annotations2clips: discovery of annotation files, parsing of the        *)
(* annotations, chunking of the annotated intervals into clips, and the    *)
(* three exported files (stats, manifest, mapping).                        *)
(*                                                                         *)
(* Strings are sequences of byte values (the UTF-8 encoding the code sorts *)
(* by).  Python dicts are insertion-ordered: a dict is a sequence of       *)
(* [k, v] records with distinct keys.  Times are exact numbers of seconds  *)
(* (the inputs are even, so that the centring division by 2 is exact);     *)
(* floating-point rounding is not modelled.                                *)
(***************************************************************************)
EXTENDS Integers, Sequences, FiniteSets, TLC

VARIABLES
    pc,                        \* position of main / of the running method
    clip_length,               \* self.args.clip_length
    preserve_folder_structure, \* self.args.preserve_folder_structure
    error,                     \* the exception that ended the run, or "none"
    seen,                      \* items root.rglob("*") has yielded so far
    videos,                    \* self.videos: uid -> annotation_path, video_path, clips
    annotations,               \* self.annotations: uid -> label -> intervals
    budget,                    \* metadata records the corpus may still hold
    stats_dict,                \* create_clips: stats_dict
    uid_queue,                 \* create_clips: uids of the outer loop still to come
    uid,                       \* create_clips: uid
    action_queue,              \* create_clips: labels of the middle loop still to come
    action,                    \* create_clips: action
    segment_queue,             \* create_clips: intervals of the inner loop still to come
    t_segment,                 \* create_clips: t_segment
    action_tracker_per_video,  \* create_clips: action_tracker_per_video
    n_chunks,                  \* create_clips: n_chunks
    t_start,                   \* create_clips: t_start
    chunk,                     \* create_clips: chunk
    output_path,               \* create_clips: output_path (UnboundPath until a clip is written)
    emitted,                   \* the clips write_videofile has written, in order
    artifacts,                 \* the output files written so far
    manifest,                  \* lines of clips.jsonl
    stats_file,                \* content of clips_stats.json
    mapping_file,              \* content of the mapping file
    rd_pc,                     \* position of one AnnotationReader
    rd_options,                \* annotation_dict["attribute"]["1"]["options"]
    rd_metadata,               \* annotation_dict["metadata"] records read so far
    rd_labels,                 \* _action of each record read so far
    action_dict,               \* AnnotationReader.action_dict
    rd_result,                 \* what the latest call of extract_annotations returned
    rd_calls,                  \* calls of extract_annotations that have returned
    rd_first                   \* the value the first call returned, as it was then

discVars   == <<seen, videos>>
annVars    == <<annotations, budget>>
loopVars   == <<uid_queue, uid, action_queue, action, segment_queue, t_segment,
                action_tracker_per_video, n_chunks, t_start, chunk, output_path>>
clipVars   == <<stats_dict, emitted>>
outVars    == <<artifacts, manifest, stats_file, mapping_file>>
readerVars == <<rd_pc, rd_options, rd_metadata, rd_labels, action_dict, rd_result,
                rd_calls, rd_first>>
vars == <<pc, clip_length, preserve_folder_structure, error, discVars, annVars, loopVars, clipVars, outVars, readerVars>>

-----------------------------------------------------------------------------
(* Bounds *)

\* metadata records one annotation file holds (reader specification)
MaxRecords == 4
\* metadata records of the whole corpus (pipeline specification)
MaxIntervals == 3
\* calls of extract_annotations on one reader
MaxCalls == 2

-----------------------------------------------------------------------------
(* Strings as byte sequences *)

S_a    == <<97>>
S_b    == <<98>>
S_1    == <<49>>
S_9    == <<57>>
S_None == <<78, 111, 110, 101>>
S_List == <<91, 93>>
S_Mp4  == <<46, 109, 112, 52>>
S_Sep  == <<95>>
S_c    == <<99>>
S_a_b  == <<97, 95, 98>>
S_b_c  == <<98, 95, 99>>

\* s.encode("utf-8") compared as Python compares bytes: lexicographically
RECURSIVE BytesLess(_, _)
BytesLess(x, y) ==
    IF x = <<>> THEN y # <<>>
    ELSE IF y = <<>> THEN FALSE
    ELSE IF x[1] < y[1] THEN TRUE
    ELSE IF x[1] > y[1] THEN FALSE
    ELSE BytesLess(Tail(x), Tail(y))

\* sorted(keys, key=lambda s: s.encode("utf-8")) over distinct keys
RECURSIVE SortedBytes(_)
SortedBytes(S) ==
    IF S = {} THEN <<>>
    ELSE LET m == CHOOSE x \in S : \A y \in S \ {x} : BytesLess(x, y)
         IN  <<m>> \o SortedBytes(S \ {m})

-----------------------------------------------------------------------------
(* Insertion-ordered dicts *)

Keys(d) == {d[i].k : i \in 1..Len(d)}

HasKey(d, key) == \E i \in 1..Len(d) : d[i].k = key

Get(d, key) == d[CHOOSE i \in 1..Len(d) : d[i].k = key].v

\* d[key] = val: a new key goes last, an old key keeps its place
Put(d, key, val) ==
    IF HasKey(d, key)
    THEN [i \in 1..Len(d) |-> IF d[i].k = key THEN [k |-> key, v |-> val] ELSE d[i]]
    ELSE Append(d, [k |-> key, v |-> val])

Unbound == "unbound"

\* the local output_path of create_clips before its first assignment (no
\* clip has an empty file name)
UnboundPath == [dir |-> "", file |-> <<>>]

-----------------------------------------------------------------------------
(* Discovery *)

Sections == {"project", "attribute", "file", "metadata"}

\* what root.rglob("*") can yield
Item(path, kind, suffix, json, keys, pid, has_dir, has_video) ==
    [path |-> path, kind |-> kind, suffix |-> suffix, json |-> json, keys |-> keys,
     pid |-> pid, fname |-> "video.mp4", has_dir |-> has_dir, has_video |-> has_video]

DirItem(p)        == Item(p, "dir", "", "", {}, <<>>, FALSE, FALSE)
OtherFile(p)      == Item(p, "file", ".mp4", "", {}, <<>>, FALSE, FALSE)
CorruptJson(p)    == Item(p, "file", ".json", "invalid", {}, <<>>, FALSE, FALSE)
ArrayJson(p)      == Item(p, "file", ".json", "array", {}, <<>>, FALSE, FALSE)
PartialJson(p, K) == Item(p, "file", ".json", "object", K, <<>>, FALSE, FALSE)
ValidJson(p, pid, has_dir, has_video) ==
    Item(p, "file", ".json", "object", Sections, pid, has_dir, has_video)

Paths == {"p1", "p2", "p3"}

AllItems ==
    UNION {
        {DirItem(p), OtherFile(p), CorruptJson(p), ArrayJson(p),
         PartialJson(p, {}), PartialJson(p, Sections \ {"metadata"})}
        \cup {ValidJson(p, u, d, v) : u \in {S_a, S_b}, d \in BOOLEAN, v \in BOOLEAN}
        : p \in Paths }

MainItems ==
    {ValidJson("p1", S_b, TRUE, TRUE), ValidJson("p2", S_a, TRUE, TRUE), CorruptJson("p3")}

\* check_valid_annotation_file: the exception it raises ("none" when it returns)
CheckRaises(item) ==
    IF item.json = "invalid" THEN "Not a valid JSON"
    ELSE IF item.json # "object" THEN "AttributeError"
    ELSE "none"

\* check_valid_annotation_file: is_valid
IsValidAnnotation(item) == \A s \in Sections : s \in item.keys

\* a discovery that pairs without looking for the folder
SiblingIsDirUnchecked(item) == TRUE

\* Path(item.parent, item.stem).is_dir()
SiblingIsDir(item) == item.has_dir

\* the body of the loop of discover_files for one item
DiscoverFrom(Items) ==
    /\ pc = "discover_files"
    /\ \E item \in Items :
        /\ \A i \in 1..Len(seen) : seen[i].path # item.path
        /\ seen' = Append(seen, item)
        /\ IF item.kind = "file" /\ item.suffix = ".json"
           THEN IF CheckRaises(item) # "none"
                THEN /\ pc' = "failed"
                     /\ error' = CheckRaises(item)
                     /\ UNCHANGED videos
                ELSE /\ UNCHANGED <<pc, error>>
                     /\ IF IsValidAnnotation(item) /\ SiblingIsDir(item)
                        THEN videos' = Put(videos, item.pid,
                                 [annotation_path |-> item.path,
                                  video_path |-> [dir |-> item.path, fname |-> item.fname],
                                  clips |-> <<>>])
                        ELSE UNCHANGED videos
           ELSE UNCHANGED <<pc, error, videos>>
    /\ UNCHANGED <<clip_length, preserve_folder_structure, annVars, loopVars, clipVars, outVars, readerVars>>

DiscoverItem == DiscoverFrom(AllItems)

DiscoverMainItem == DiscoverFrom(MainItems)

\* recordings whose uid holds the separator of the clip filename
PathItems == {ValidJson("p1", S_a_b, TRUE, TRUE), ValidJson("p2", S_a, TRUE, TRUE)}

DiscoverPathItem == DiscoverFrom(PathItems)

\* a main that saves the statistics before it creates the clips
MainOrderStatsFirst ==
    <<"discover_files", "get_annotations", "save_stats", "create_clips",
      "create_jsonl_file", "save_file_mapping", "done">>

\* the calls of main, in order
MainOrder ==
    <<"discover_files", "get_annotations", "create_clips", "save_stats",
      "create_jsonl_file", "save_file_mapping", "done">>

\* where main goes when a call returns
After(step) == MainOrder[(CHOOSE i \in 1..Len(MainOrder) : MainOrder[i] = step) + 1]

\* rglob is exhausted: discover_files returns
DiscoverReturn ==
    /\ pc = "discover_files"
    /\ pc' = After("discover_files")
    /\ UNCHANGED <<clip_length, preserve_folder_structure, error, discVars, annVars, loopVars, clipVars, outVars, readerVars>>

-----------------------------------------------------------------------------
(* Annotation reader *)

\* entry["av"]["1"]: a string, or a value that cannot be a dict key (the list [])
StrCode(s) == [t |-> "str", s |-> s]
ListCode   == [t |-> "list", s |-> S_List]
NoneVal    == [t |-> "None", s |-> S_None]

\* str(v)
PyStr(v) == v.s

\* dict.get(key): the value, or None for a key the dict does not hold
DictGet(d, key) == IF HasKey(d, key) THEN StrCode(Get(d, key)) ELSE NoneVal

\* _action: the try / except around the lookup of the coded value
Resolve(options, av) ==
    IF av.t = "str"
    THEN PyStr(DictGet(options, av.s))
    ELSE PyStr(av)

\* a reader that keeps every record with at least two time values
ReadRecordAtLeastTwo(ad, options, entry) ==
    LET _action == Resolve(options, entry.av) IN
    IF Len(entry.z) >= 2
    THEN IF HasKey(ad, _action)
         THEN Put(ad, _action, Append(Get(ad, _action), <<entry.z[1], entry.z[2]>>))
         ELSE Put(ad, _action, << <<entry.z[1], entry.z[2]>> >>)
    ELSE ad

\* the body of the loop of extract_annotations for one metadata record
ReadRecord(ad, options, entry) ==
    LET _action == Resolve(options, entry.av) IN
    IF Len(entry.z) = 2
    THEN IF HasKey(ad, _action)
         THEN Put(ad, _action, Append(Get(ad, _action), <<entry.z[1], entry.z[2]>>))
         ELSE Put(ad, _action, << <<entry.z[1], entry.z[2]>> >>)
    ELSE ad

\* extract_annotations of a fresh reader over a whole file
RECURSIVE ReadAll(_, _, _)
ReadAll(ad, options, metadata) ==
    IF metadata = <<>> THEN ad
    ELSE ReadAll(ReadRecord(ad, options, Head(metadata)), options, Tail(metadata))

ExtractAnnotations(doc) == ReadAll(<<>>, doc.options, doc.metadata)

OptionTables ==
    { << [k |-> S_1, v |-> S_b] >>,
      << [k |-> S_1, v |-> S_b], [k |-> S_9, v |-> S_a] >> }

ZValues == { <<0>>, <<0, 10>>, <<6, 0>>, <<2, 2>>, <<0, 2, 4>> }

Entries == [av : {StrCode(S_1), StrCode(S_9), ListCode}, z : ZValues]

\* AnnotationReader(path) followed by the json.load of extract_annotations
ReaderOpen ==
    /\ rd_pc = "init"
    /\ rd_pc' = "loop"
    /\ rd_options' \in OptionTables
    /\ action_dict' = <<>>
    /\ UNCHANGED <<clip_length, preserve_folder_structure, pc, error, discVars, annVars, loopVars, clipVars, outVars,
                   rd_metadata, rd_labels, rd_result, rd_calls, rd_first>>

\* one iteration of `for annotation in annotation_dict["metadata"]`
ReaderRecord ==
    /\ rd_pc = "loop"
    /\ Len(rd_metadata) < MaxRecords
    /\ \E entry \in Entries :
        /\ rd_metadata' = Append(rd_metadata, entry)
        /\ rd_labels' = Append(rd_labels, Resolve(rd_options, entry.av))
        /\ action_dict' = ReadRecord(action_dict, rd_options, entry)
    /\ UNCHANGED <<clip_length, preserve_folder_structure, pc, error, discVars, annVars, loopVars, clipVars, outVars,
                   rd_pc, rd_options, rd_result, rd_calls, rd_first>>

\* the metadata is exhausted: return self.action_dict
ReaderReturn ==
    /\ rd_pc = "loop"
    /\ rd_pc' = "returned"
    /\ rd_result' = action_dict
    /\ rd_calls' = 1
    /\ rd_first' = action_dict
    /\ UNCHANGED <<clip_length, preserve_folder_structure, pc, error, discVars, annVars, loopVars, clipVars, outVars,
                   rd_options, rd_metadata, rd_labels, action_dict>>

\* a further call of extract_annotations on the same reader over the same
\* file: the loop appends to the self.action_dict the earlier calls filled,
\* and the object returned is again self.action_dict
ReaderCallAgain ==
    /\ rd_pc = "returned"
    /\ rd_calls < MaxCalls
    /\ action_dict' = ReadAll(action_dict, rd_options, rd_metadata)
    /\ rd_result' = action_dict'
    /\ rd_calls' = rd_calls + 1
    /\ UNCHANGED <<clip_length, preserve_folder_structure, pc, error, discVars, annVars, loopVars, clipVars, outVars,
                   rd_pc, rd_options, rd_metadata, rd_labels, rd_first>>


-----------------------------------------------------------------------------
(* get_annotations *)

SeqsUpTo(S, n) == UNION {[1..k -> S] : k \in 0..n}

MainOptions == << [k |-> S_1, v |-> S_b], [k |-> S_9, v |-> S_a] >>

MainZ == { <<0, 10>>, <<2, 6>>, <<0, 2>>, <<6, 0>> }

MainEntries == [av : {StrCode(S_1), StrCode(S_9)}, z : MainZ]

\* option names that hold the separator of the clip filename
PathOptions == << [k |-> S_1, v |-> S_c], [k |-> S_9, v |-> S_b_c] >>

\* one iteration of `for video in self.videos`: a fresh reader on the
\* video's annotation file
GetAnnotationsFrom(options) ==
    /\ pc = "get_annotations"
    /\ Len(annotations) < Len(videos)
    /\ \E metadata \in SeqsUpTo(MainEntries, budget) :
        /\ annotations' = Append(annotations,
               [k |-> videos[Len(annotations) + 1].k,
                v |-> ExtractAnnotations([options |-> options, metadata |-> metadata])])
        /\ budget' = budget - Len(metadata)
    /\ UNCHANGED <<clip_length, preserve_folder_structure, pc, error, discVars, loopVars, clipVars, outVars, readerVars>>

GetAnnotationsVideo == GetAnnotationsFrom(MainOptions)

GetAnnotationsPathVideo == GetAnnotationsFrom(PathOptions)

GetAnnotationsReturn ==
    /\ pc = "get_annotations"
    /\ Len(annotations) = Len(videos)
    /\ pc' = After("get_annotations")
    /\ UNCHANGED <<clip_length, preserve_folder_structure, error, discVars, annVars, loopVars, clipVars, outVars, readerVars>>

-----------------------------------------------------------------------------
(* create_clips *)

\* VideoProcessorSettings.clip_length: its default, in seconds
DefaultClipLength == 4

\* the clip lengths a run is configured with
ClipLengths == {DefaultClipLength, 6}

\* f"{n:03}"
Pad3(n) == <<48 + ((n \div 100) % 10), 48 + ((n \div 10) % 10), 48 + (n % 10)>>

ConstructVideoFilename(u, a, action_index, chunk_index) ==
    u \o S_Sep \o a \o S_Sep \o Pad3(action_index) \o S_Sep \o Pad3(chunk_index) \o S_Mp4

\* construct_preserved_output_path: the recording's directory relative to
\* the data root, under the output folder
ConstructPreservedOutputPath(input_file, output_file) ==
    [dir |-> input_file.dir, file |-> output_file]

\* where a clip is written: under the mirrored directory, or directly in
\* the output folder
OutputPath(input_file, output_file) ==
    IF preserve_folder_structure
    THEN ConstructPreservedOutputPath(input_file, output_file)
    ELSE [dir |-> "", file |-> output_file]

\* n_chunks = floor(len_t_segment / clip_length)
NChunks(seg) == (seg[2] - seg[1]) \div clip_length

\* a first window that starts where the interval starts
TStartUncentred(seg) == seg[1]

\* t_start = t_segment[0] + (len_t_segment - n_chunks * clip_length) / 2
TStart(seg) == seg[1] + ((seg[2] - seg[1]) - NChunks(seg) * clip_length) \div 2

\* stats_dict = {}; the uids sorted by their bytes
CreateClipsBegin ==
    /\ pc = "create_clips"
    /\ stats_dict' = <<>>
    /\ uid_queue' = SortedBytes(Keys(videos))
    /\ pc' = "for_uid"
    /\ UNCHANGED <<clip_length, preserve_folder_structure, error, discVars, annVars, uid, action_queue, action, segment_queue,
                   t_segment, action_tracker_per_video, n_chunks, t_start, chunk,
                   output_path, emitted, outVars, readerVars>>

\* for uid in sorted(self.videos): the next uid
ForUid ==
    /\ pc = "for_uid"
    /\ uid_queue # <<>>
    /\ uid' = Head(uid_queue)
    /\ uid_queue' = Tail(uid_queue)
    /\ videos' = Put(videos, Head(uid_queue),
                     [Get(videos, Head(uid_queue)) EXCEPT !.clips = <<>>])
    /\ action_tracker_per_video' = <<>>
    /\ action_queue' = SortedBytes(Keys(Get(annotations, Head(uid_queue))))
    /\ pc' = "for_action"
    /\ UNCHANGED <<clip_length, preserve_folder_structure, error, seen, annVars, action, segment_queue, t_segment, n_chunks,
                   t_start, chunk, output_path, clipVars, outVars, readerVars>>

\* the uids are exhausted: return stats_dict
CreateClipsReturn ==
    /\ pc = "for_uid"
    /\ uid_queue = <<>>
    /\ pc' = After("create_clips")
    /\ UNCHANGED <<clip_length, preserve_folder_structure, error, discVars, annVars, loopVars, clipVars, outVars, readerVars>>

\* for action in sorted(self.annotations[uid]): the next label
ForAction ==
    /\ pc = "for_action"
    /\ action_queue # <<>>
    /\ action' = Head(action_queue)
    /\ action_queue' = Tail(action_queue)
    /\ segment_queue' = Get(Get(annotations, uid), Head(action_queue))
    /\ pc' = "for_segment"
    /\ UNCHANGED <<clip_length, preserve_folder_structure, error, discVars, annVars, uid_queue, uid, t_segment,
                   action_tracker_per_video, n_chunks, t_start, chunk, output_path,
                   clipVars, outVars, readerVars>>

\* the labels of this uid are exhausted
ForActionEnd ==
    /\ pc = "for_action"
    /\ action_queue = <<>>
    /\ pc' = "for_uid"
    /\ UNCHANGED <<clip_length, preserve_folder_structure, error, discVars, annVars, loopVars, clipVars, outVars, readerVars>>

\* a counter whose first occurrence counts as 1
TrackActionFromOne(tracker, a) ==
    IF HasKey(tracker, a)
    THEN Put(tracker, a, Get(tracker, a) + 1)
    ELSE Put(tracker, a, 1)

\* the occurrence counter of a label within one video: 0, then one more
\* for every further interval of the label, skipped or not
TrackAction(tracker, a) ==
    IF HasKey(tracker, a)
    THEN Put(tracker, a, Get(tracker, a) + 1)
    ELSE Put(tracker, a, 0)

\* for t_segment in self.annotations[uid][action]: the next interval, up to
\* the loop over its chunks
ForSegment ==
    /\ pc = "for_segment"
    /\ segment_queue # <<>>
    /\ t_segment' = Head(segment_queue)
    /\ segment_queue' = Tail(segment_queue)
    /\ action_tracker_per_video' = TrackAction(action_tracker_per_video, action)
    /\ n_chunks' = NChunks(Head(segment_queue))
    /\ t_start' = TStart(Head(segment_queue))
    /\ chunk' = 0
    /\ pc' = "for_chunk"
    /\ UNCHANGED <<clip_length, preserve_folder_structure, error, discVars, annVars, uid_queue, uid, action_queue, action,
                   output_path, clipVars, outVars, readerVars>>

\* the intervals of this label are exhausted: the logger.info that follows
\* the loop reads n_chunks and output_path.parent
ForSegmentEnd ==
    /\ pc = "for_segment"
    /\ segment_queue = <<>>
    /\ IF output_path = UnboundPath
       THEN pc' = "failed" /\ error' = "UnboundLocalError"
       ELSE pc' = "for_action" /\ UNCHANGED error
    /\ UNCHANGED <<clip_length, preserve_folder_structure, discVars, annVars, loopVars, clipVars, outVars, readerVars>>

\* for chunk in range(n_chunks): one clip cut and written
WriteClip ==
    /\ pc = "for_chunk"
    /\ chunk < n_chunks
    /\ LET t_end    == t_start + clip_length
           index    == Get(action_tracker_per_video, action)
           filename == ConstructVideoFilename(uid, action, index, chunk)
           entry    == Get(videos, uid)
       IN  /\ output_path' = OutputPath(entry.video_path, filename)
           /\ emitted' = Append(emitted,
                 [uid |-> uid, action |-> action, action_index |-> index,
                  chunk_index |-> chunk, t_start |-> t_start, t_end |-> t_end,
                  t_segment |-> t_segment, filename |-> filename,
                  path |-> OutputPath(entry.video_path, filename)])
           /\ videos' = Put(videos, uid,
                 [entry EXCEPT !.clips =
                     IF HasKey(entry.clips, action)
                     THEN Put(entry.clips, action, Append(Get(entry.clips, action), filename))
                     ELSE Put(entry.clips, action, <<filename>>)])
           /\ t_start' = t_end
    /\ chunk' = chunk + 1
    /\ UNCHANGED <<clip_length, preserve_folder_structure, pc, error, seen, annVars, uid_queue, uid, action_queue, action,
                   segment_queue, t_segment, action_tracker_per_video, n_chunks,
                   stats_dict, outVars, readerVars>>

\* the media codec fails on a window (VideoFileClip, subclipped or
\* write_videofile raises): nothing catches it
WriteClipFails ==
    /\ pc = "for_chunk"
    /\ chunk < n_chunks
    /\ pc' = "failed"
    /\ error' = "CodecError"
    /\ UNCHANGED <<clip_length, preserve_folder_structure, discVars, annVars, loopVars, clipVars, outVars, readerVars>>

\* range(n_chunks) is exhausted: the interval's chunks are added to the stats
SegmentDone ==
    /\ pc = "for_chunk"
    /\ ~(chunk < n_chunks)
    /\ stats_dict' =
          IF HasKey(stats_dict, action)
          THEN Put(stats_dict, action, Get(stats_dict, action) + n_chunks)
          ELSE Put(stats_dict, action, n_chunks)
    /\ pc' = "for_segment"
    /\ UNCHANGED <<clip_length, preserve_folder_structure, error, discVars, annVars, loopVars, emitted, outVars, readerVars>>

-----------------------------------------------------------------------------
(* The exported files *)

\* json.dump(stats_dict) to clips_stats.json
SaveStats ==
    /\ pc = "save_stats"
    /\ stats_file' = stats_dict
    /\ artifacts' = artifacts \cup {"stats"}
    /\ pc' = After("save_stats")
    /\ UNCHANGED <<clip_length, preserve_folder_structure, error, discVars, annVars, loopVars, clipVars, manifest, mapping_file,
                   readerVars>>

\* the lines of one recording: its labels in the order of its clips dict
RECURSIVE ClipLines(_)
ClipLines(clips) ==
    IF clips = <<>> THEN <<>>
    ELSE [i \in 1..Len(Head(clips).v) |-> [video |-> Head(clips).v[i], label |-> Head(clips).k]]
         \o ClipLines(Tail(clips))

\* for uid in self.videos: for action in self.videos[uid]["clips"]: writelines
RECURSIVE JsonlLines(_)
JsonlLines(vs) ==
    IF vs = <<>> THEN <<>>
    ELSE ClipLines(Head(vs).v.clips) \o JsonlLines(Tail(vs))

CreateJsonlFile ==
    /\ pc = "create_jsonl_file"
    /\ manifest' = JsonlLines(videos)
    /\ artifacts' = artifacts \cup {"manifest"}
    /\ pc' = After("create_jsonl_file")
    /\ UNCHANGED <<clip_length, preserve_folder_structure, error, discVars, annVars, loopVars, clipVars, stats_file, mapping_file,
                   readerVars>>

\* uid -> str(video_path.parent)
SaveFileMapping ==
    /\ pc = "save_file_mapping"
    /\ mapping_file' = [i \in 1..Len(videos) |-> [k |-> videos[i].k, v |-> videos[i].v.video_path.dir]]
    /\ artifacts' = artifacts \cup {"mapping"}
    /\ pc' = After("save_file_mapping")
    /\ UNCHANGED <<clip_length, preserve_folder_structure, error, discVars, annVars, loopVars, clipVars, manifest, stats_file,
                   readerVars>>

-----------------------------------------------------------------------------

InitData ==
    /\ error = "none"
    /\ seen = <<>>
    /\ videos = <<>>
    /\ annotations = <<>>
    /\ budget = MaxIntervals
    /\ stats_dict = <<>>
    /\ uid_queue = <<>>
    /\ uid = Unbound
    /\ action_queue = <<>>
    /\ action = Unbound
    /\ segment_queue = <<>>
    /\ t_segment = Unbound
    /\ action_tracker_per_video = <<>>
    /\ n_chunks = 0
    /\ t_start = 0
    /\ chunk = 0
    /\ output_path = UnboundPath
    /\ emitted = <<>>
    /\ artifacts = {}
    /\ manifest = <<>>
    /\ stats_file = <<>>
    /\ mapping_file = <<>>
    /\ rd_options = <<>>
    /\ rd_metadata = <<>>
    /\ rd_labels = <<>>
    /\ action_dict = <<>>
    /\ rd_result = <<>>
    /\ rd_calls = 0
    /\ rd_first = <<>>

Init ==
    /\ pc = "discover_files"
    /\ preserve_folder_structure = FALSE
    /\ clip_length \in ClipLengths
    /\ rd_pc = "idle"
    /\ InitData

InitDiscover ==
    /\ pc = "discover_files"
    /\ preserve_folder_structure = FALSE
    /\ clip_length = DefaultClipLength
    /\ rd_pc = "idle"
    /\ InitData

InitReader ==
    /\ pc = "idle"
    /\ preserve_folder_structure = FALSE
    /\ clip_length = DefaultClipLength
    /\ rd_pc = "init"
    /\ InitData

InitPaths ==
    /\ pc = "discover_files"
    /\ preserve_folder_structure \in BOOLEAN
    /\ clip_length = DefaultClipLength
    /\ rd_pc = "idle"
    /\ InitData

Next ==
    \/ DiscoverMainItem \/ DiscoverReturn
    \/ GetAnnotationsVideo \/ GetAnnotationsReturn
    \/ CreateClipsBegin \/ ForUid \/ CreateClipsReturn
    \/ ForAction \/ ForActionEnd
    \/ ForSegment \/ ForSegmentEnd
    \/ WriteClip \/ WriteClipFails \/ SegmentDone
    \/ SaveStats \/ CreateJsonlFile \/ SaveFileMapping

Spec == Init /\ [][Next]_vars

NextPaths ==
    \/ DiscoverPathItem \/ DiscoverReturn
    \/ GetAnnotationsPathVideo \/ GetAnnotationsReturn
    \/ CreateClipsBegin \/ ForUid \/ CreateClipsReturn
    \/ ForAction \/ ForActionEnd
    \/ ForSegment \/ ForSegmentEnd
    \/ WriteClip \/ WriteClipFails \/ SegmentDone
    \/ SaveStats \/ CreateJsonlFile \/ SaveFileMapping

SpecPaths == InitPaths /\ [][NextPaths]_vars

NextDiscover == DiscoverItem \/ DiscoverReturn

SpecDiscover == InitDiscover /\ [][NextDiscover]_vars

NextReader == ReaderOpen \/ ReaderRecord \/ ReaderReturn

SpecReader == InitReader /\ [][NextReader]_vars

NextRepeat == ReaderOpen \/ ReaderRecord \/ ReaderReturn \/ ReaderCallAgain

SpecRepeat == InitReader /\ [][NextRepeat]_vars

-----------------------------------------------------------------------------
(* Chunking and export: claims C1 .. C5 (checked under Spec) *)

Duration(seg) == seg[2] - seg[1]

\* the windows written so far for the interval the loop is at
WindowsOfSegment ==
    {i \in 1..Len(emitted) :
        /\ emitted[i].uid = uid
        /\ emitted[i].action = action
        /\ emitted[i].action_index = Get(action_tracker_per_video, action)}

\* C1: an interval at least clip_length long gets n = floor(duration /
\* clip_length) windows; window k is [start + offset + k * clip_length,
\* start + offset + (k + 1) * clip_length) with 2 * offset = duration -
\* n * clip_length, so the windows abut and the time left before the first
\* equals the time left after the last.
C1_CentredWindows ==
    /\ \A i \in 1..Len(emitted) :
          LET e == emitted[i]
              d == Duration(e.t_segment)
              n == d \div clip_length
          IN  d >= clip_length =>
                /\ e.chunk_index \in 0..(n - 1)
                /\ 2 * (e.t_start - e.t_segment[1] - e.chunk_index * clip_length)
                      = d - n * clip_length
                /\ e.t_end = e.t_start + clip_length
    /\ (pc = "for_chunk" /\ ~(chunk < n_chunks) /\ Duration(t_segment) >= clip_length) =>
          LET n == Duration(t_segment) \div clip_length
              W == WindowsOfSegment
          IN  /\ Cardinality(W) = n
              /\ {emitted[i].chunk_index : i \in W} = 0..(n - 1)
              /\ \A i \in W : \A j \in W :
                    emitted[j].chunk_index = emitted[i].chunk_index + 1 =>
                        emitted[j].t_start = emitted[i].t_end
              /\ \A i \in W : \A j \in W :
                    (emitted[i].chunk_index = 0 /\ emitted[j].chunk_index = n - 1) =>
                        emitted[i].t_start - t_segment[1] = t_segment[2] - emitted[j].t_end

\* both windows of the interval (0, 10) are written, one second in
C1_Witness ==
    /\ pc = "for_chunk"
    /\ clip_length = DefaultClipLength
    /\ t_segment = <<0, 10>>
    /\ chunk = 2 /\ n_chunks = 2
    /\ emitted[Len(emitted)].t_start = 5

\* C2 as stated: an interval shorter than clip_length gets no window and
\* raises nothing, wherever it stands: create_clips ends early only when the
\* codec fails.
C2_ShortIntervalSkipped ==
    /\ \A i \in 1..Len(emitted) : Duration(emitted[i].t_segment) >= clip_length
    /\ pc = "failed" => error \in {"Not a valid JSON", "CodecError"}

\* C3 as stated: once the manifest is written, the count create_clips
\* returned for a label is the number of manifest lines with that label.
C3_StatsMatchManifest ==
    "manifest" \in artifacts =>
        \A i \in 1..Len(stats_dict) :
            stats_dict[i].v =
                Cardinality({j \in 1..Len(manifest) : manifest[j].label = stats_dict[i].k})

C5_AllOrNothing ==
    /\ pc = "failed" => artifacts = {}
    /\ pc = "done" => artifacts = {"stats", "manifest", "mapping"}

\* the codec fails after a clip has been written
C5_Witness ==
    /\ pc = "failed"
    /\ error = "CodecError"
    /\ Len(emitted) > 0

\* the position (0-based) in its label's list of the interval the loop is at
SegmentPosition ==
    Len(Get(Get(annotations, uid), action)) - Len(segment_queue) - 1

\* C11: the interval at position k (0-based) of a label's list in a
\* recording's AnnotationSet gets action_index k, whatever the other labels
\* and the other recordings of the run hold.
C11_DenseActionIndex ==
    /\ pc = "for_chunk" =>
          /\ Get(action_tracker_per_video, action) = SegmentPosition
          /\ Get(Get(annotations, uid), action)[SegmentPosition + 1] = t_segment
    /\ \A i \in 1..Len(emitted) :
          LET e    == emitted[i]
              list == Get(Get(annotations, e.uid), e.action)
          IN  /\ e.action_index \in 0..(Len(list) - 1)
              /\ list[e.action_index + 1] = e.t_segment

\* the second interval of a label in the second recording, the first
\* recording having clips of the same label
C11_Witness ==
    /\ pc = "for_chunk"
    /\ SegmentPosition = 1
    /\ Len(emitted) > 0
    /\ emitted[1].uid # uid /\ emitted[1].action = action
    /\ emitted[Len(emitted)].uid = uid /\ emitted[Len(emitted)].action_index = 1

-----------------------------------------------------------------------------
(* Discovery: claims C6, C7 (checked under SpecDiscover) *)

IsJsonFile(item) == item.kind = "file" /\ item.suffix = ".json"

\* a .json file that parses to an object holding the four sections
Qualifying(item) == IsJsonFile(item) /\ item.json = "object" /\ Sections \subseteq item.keys

SeenAt(path) == CHOOSE j \in 1..Len(seen) : seen[j].path = path

\* C6 as stated: after discover_files every Registry Entry belongs to a
\* qualifying annotation file whose sibling directory exists and holds the
\* declared recording, and a qualifying file without that has no entry.
C6_PairedWithRecording ==
    pc = "get_annotations" =>
        /\ \A i \in 1..Len(videos) :
              \E j \in 1..Len(seen) :
                  /\ Qualifying(seen[j])
                  /\ seen[j].path = videos[i].v.annotation_path
                  /\ seen[j].pid = videos[i].k
                  /\ seen[j].has_dir /\ seen[j].has_video
        /\ \A j \in 1..Len(seen) :
              Qualifying(seen[j]) /\ ~(seen[j].has_dir /\ seen[j].has_video) =>
                  \A i \in 1..Len(videos) : videos[i].v.annotation_path # seen[j].path

\* C6 as amended: after discover_files every Registry Entry belongs to a
\* qualifying annotation file whose sibling directory exists, its video path
\* being the declared recording name inside that directory (whether or not
\* the recording is there), and a qualifying file without a sibling
\* directory is the annotation file of no entry.
C6_PairedWithDirectory ==
    pc = "get_annotations" =>
        /\ \A i \in 1..Len(videos) :
              \E j \in 1..Len(seen) :
                  /\ Qualifying(seen[j])
                  /\ seen[j].path = videos[i].v.annotation_path
                  /\ seen[j].pid = videos[i].k
                  /\ seen[j].has_dir
                  /\ videos[i].v.video_path = [dir |-> seen[j].path, fname |-> seen[j].fname]
        /\ \A j \in 1..Len(seen) :
              Qualifying(seen[j]) /\ ~seen[j].has_dir =>
                  \A i \in 1..Len(videos) : videos[i].v.annotation_path # seen[j].path

\* discovery returned having met a qualifying file without a directory (no
\* entry) and one with a directory that lacks the recording (an entry)
C6_Witness ==
    /\ pc = "get_annotations"
    /\ \E j \in 1..Len(seen) : Qualifying(seen[j]) /\ ~seen[j].has_dir
    /\ \E i \in 1..Len(videos) : ~seen[SeenAt(videos[i].v.annotation_path)].has_video

\* C7 as stated: discover_files fails exactly when some .json file is not
\* parseable JSON, and a .json file that parses but does not hold the four
\* sections adds no Registry Entry.
C7_FailsOnlyOnCorruptJson ==
    /\ (pc = "failed") <=>
           (\E j \in 1..Len(seen) : IsJsonFile(seen[j]) /\ seen[j].json = "invalid")
    /\ \A i \in 1..Len(videos) : Qualifying(seen[SeenAt(videos[i].v.annotation_path)])

-----------------------------------------------------------------------------
(* Annotation reader: claims C8, C9, C10 (checked under SpecReader) *)

\* C8 as stated: every interval of a returned AnnotationSet has end > start.
C8_EndAfterStart ==
    rd_pc = "returned" =>
        \A i \in 1..Len(rd_result) : \A j \in 1..Len(rd_result[i].v) :
            rd_result[i].v[j][2] > rd_result[i].v[j][1]

\* the label C9 states: the table's name, else the raw coded value
ClaimedLabel(options, av) ==
    IF av.t = "str" /\ HasKey(options, av.s) THEN Get(options, av.s) ELSE av.s

\* C9 as stated: a record whose coded value is a key of the option table is
\* labelled with the table's name, any other record with its raw coded value.
C9_LabelResolution ==
    \A i \in 1..Len(rd_metadata) :
        rd_labels[i] = ClaimedLabel(rd_options, rd_metadata[i].av)

\* the records that have exactly two time values, in file order
KeptRecords == SelectSeq(rd_metadata, LAMBDA e : Len(e.z) = 2)

KeptIndex == {i \in 1..Len(rd_metadata) : Len(rd_metadata[i].z) = 2}

FirstKept(label) ==
    CHOOSE i \in KeptIndex :
        /\ rd_labels[i] = label
        /\ \A j \in KeptIndex : rd_labels[j] = label => i <= j

\* the (start, end) pairs of the kept records of one label, in file order
PairsOf(label) ==
    LET idx == SelectSeq([i \in 1..Len(rd_metadata) |-> i],
                         LAMBDA i : i \in KeptIndex /\ rd_labels[i] = label)
    IN  [n \in 1..Len(idx) |-> <<rd_metadata[idx[n]].z[1], rd_metadata[idx[n]].z[2]>>]

\* C10: the AnnotationSet the first call of a fresh reader returns holds
\* exactly the labels of the records with two time values, ordered by first
\* appearance, each with the (start, end) pairs of its records in file order.
C10_MatchesReference ==
    rd_pc = "returned" =>
        /\ Keys(rd_result) = {rd_labels[i] : i \in KeptIndex}
        /\ \A p \in 1..Len(rd_result) : \A q \in 1..Len(rd_result) :
              /\ p # q => rd_result[p].k # rd_result[q].k
              /\ p < q => FirstKept(rd_result[p].k) < FirstKept(rd_result[q].k)
        /\ \A p \in 1..Len(rd_result) : rd_result[p].v = PairsOf(rd_result[p].k)

\* a file interleaving two labels, with a record that is skipped
C10_Witness ==
    /\ rd_pc = "returned"
    /\ Len(rd_result) = 2
    /\ \E p \in 1..2 : Len(rd_result[p].v) = 2
    /\ Len(KeptRecords) < Len(rd_metadata)
    /\ rd_labels[1] = rd_labels[3] /\ rd_labels[1] # rd_labels[2]

-----------------------------------------------------------------------------
(* Repeated extraction: claim C12 (checked under SpecRepeat) *)

\* C12 as stated: every call of extract_annotations on one reader over an
\* unmodified file returns a value equal to what the first call returned,
\* and the object an earlier call returned (it is self.action_dict) still
\* holds that value.
C12_RepeatableExtraction ==
    rd_pc = "returned" =>
        /\ rd_result = rd_first
        /\ action_dict = rd_first

-----------------------------------------------------------------------------
(* Output paths: claim C13 (checked under SpecPaths) *)

\* C13 as stated: no two clips of a run are written to the same output
\* path, in flat and in folder-preserving mode, so there are as many clip
\* files as manifest lines.
C13_DistinctOutputPaths ==
    /\ \A i \in 1..Len(emitted) : \A j \in 1..Len(emitted) :
          i # j => emitted[i].path # emitted[j].path
    /\ "manifest" \in artifacts =>
          Cardinality({emitted[i].path : i \in 1..Len(emitted)}) = Len(manifest)

====
